---- MODULE Spec2Model ----
(***************************************************************************)
(* The WFS GetFeature request handler of plansight-gis-server.             *)
(*                                                                         *)
(* The repository holds the handler wfsGetFeature in two source files:     *)
(*   src/src/wfs/getFeature.js   (no srsName; total-count query on         *)
(*                                count || bbox, given all query params)   *)
(*   src/unnamed/part_000        (srsName aware; total-count query on      *)
(*                                count != null, given the params without  *)
(*                                $count)                                  *)
(* One request is served by one of the two; `version` says which.          *)
(*                                                                         *)
(* A JavaScript object is a function from its keys to its values, an       *)
(* optional value (null / undefined) is the empty sequence <<>> or the     *)
(* one-element sequence <<v>>, an absent srsName is the string             *)
(* "undefined".  The response body is the document tree the handler hands  *)
(* to JSON.stringify / xmlbuilder2, before it is rendered as text.         *)
(***************************************************************************)
EXTENDS Integers, Sequences, FiniteSets, TLC

VARIABLES
  version,        \* which source file's wfsGetFeature serves the request
  pc,             \* the handler's position
  store,          \* the rows of all_features in the data source (ids)
  excluded,       \* EXCLUDED_WFS_COLUMNS
  parsed,         \* what parseWfsParams returned
  queryParams,    \* the handler's queryParams object
  calls,          \* the data-source calls the handler has issued, in order
  awaited,        \* the data-source calls that have returned, in order
  features,       \* the handler's features
  numberMatched,  \* the handler's numberMatched (<<>> is null)
  res,            \* what the handler has written to the response
  fetchStore      \* the rows of all_features when the fetch query read them

vars == <<version, pc, store, excluded, parsed, queryParams, calls, awaited,
          features, numberMatched, res, fetchStore>>

\* ------------------------------------------------------------------ bounds
MaxRows == 3
MaxCount == 2

\* ------------------------------------------------------------ JS helpers
Range(s) == {s[i] : i \in DOMAIN s}

\* obj[k] = v on a JavaScript object: adds the key or overwrites its value.
Put(obj, k, v) == [x \in DOMAIN obj \cup {k} |-> IF x = k THEN v ELSE obj[x]]

\* { ...a, ...b }: the keys of both, b's value where both have the key.
Spread(a, b) == [k \in DOMAIN a \cup DOMAIN b |-> IF k \in DOMAIN b THEN b[k] ELSE a[k]]

\* The columns whose values are numbers; every other column holds a string.
NumericColumns == {"id", "x", "y", "latitude", "longitude"}

\* `${value}` of a column's value: a number is rendered in decimal.
TemplateString(key, value) == IF key \in NumericColumns THEN ToString(value) ELSE value

\* Insertion order of the keys a decorated feature can have.
ColumnOrder == <<"viewerUrl", "id", "featureset", "x", "y", "latitude",
                 "longitude", "geom", "name", "GmlID">>

\* Object.keys(obj)
Keys(obj) == SelectSeq(ColumnOrder, LAMBDA k : k \in DOMAIN obj)

\* -------------------------------------------------------------- versions
GetFeatureJs == "src/src/wfs/getFeature.js"
Part000 == "src/unnamed/part_000"
Versions == {GetFeatureJs, Part000}

\* ---------------------------------------------- the data source's rows
\* Row i of all_features.  Odd ids are "plans", even ids "parks"; the point
\* of row i is (i, i), so the bounding box (0, 0, MaxRows, MaxRows) holds
\* every row but the last, whose x and y lie on its upper edge.  Every
\* second row carries a feature-specific column named GmlID.
Row(i) ==
  LET base == [id |-> i,
               featureset |-> IF i % 2 = 1 THEN "plans" ELSE "parks",
               x |-> i, y |-> i,
               latitude |-> 40 + i, longitude |-> 100 + i,
               geom |-> "POINT",
               name |-> "site " \o ToString(i)]
  IN IF i % 2 = 0 THEN Put(base, "GmlID", "legacy-" \o ToString(i)) ELSE base

RowIds == 1..MaxRows
Stores == SUBSET RowIds

RECURSIVE TableRows(_, _)
\* The rows of the table holding the ids s, in id order from i on.
TableRows(s, i) ==
  IF i > MaxRows THEN <<>>
  ELSE (IF i \in s THEN <<Row(i)>> ELSE <<>>) \o TableRows(s, i + 1)

\* The excluded-columns sets the configuration may hold.
ExcludedChoices ==
  {{}, {"id", "featureset"}, {"id", "featureset", "geom", "viewerUrl"},
   {"x", "y", "name", "GmlID"}}

\* ------------------------------------------ what parseWfsParams returns
TypeNameLists == {<<"plans">>, <<"parks", "plans">>}
NoBbox == <<>>
Bboxes == {NoBbox, <<0, 0, MaxRows, MaxRows>>}
NoCount == <<>>
Counts == {NoCount} \cup {<<k>> : k \in 1..MaxCount}
OutputFormats == {"GEOJSON", "GML"}
NoSrs == "undefined"
SrsNames == {NoSrs, "EPSG:3857", "EPSG:4326", "EPSG:900913"}

\* getFeature.js reads typeNames, bbox, outputFormat and count of the
\* parsed filter; part_000 reads srsName as well.
Filters(v) ==
  IF v = GetFeatureJs
  THEN [typeNames : TypeNameLists, bbox : Bboxes, outputFormat : OutputFormats,
        count : Counts]
  ELSE [typeNames : TypeNameLists, bbox : Bboxes, outputFormat : OutputFormats,
        count : Counts, srsName : SrsNames]

\* ---------------------------------------------------------- query builder
\* count as the handler tests it: `if (count)` / `count != null`.  The
\* resolver gives null or a positive integer, on which the two agree.
HasCount(p) == p.count # NoCount
HasBbox(p) == p.bbox # NoBbox

ParamSlot(i) == "$param" \o ToString(i)
BboxSlot(i) == "$bbox" \o ToString(i)

\* typeNames.map((t, i) => `$param${i}`)  (joined with ',' in the SQL text)
FeatureSets(typeNames) == [i \in 1..Len(typeNames) |-> ParamSlot(i - 1)]

\* queryParams after the three parameter blocks of the handler.
BuildQueryParams(p) ==
  LET names == [s \in {ParamSlot(i - 1) : i \in 1..Len(p.typeNames)} |->
                  p.typeNames[CHOOSE i \in 1..Len(p.typeNames) : ParamSlot(i - 1) = s]]
      box   == IF HasBbox(p)
               THEN [s \in {BboxSlot(i - 1) : i \in 1..Len(p.bbox)} |->
                       p.bbox[CHOOSE i \in 1..Len(p.bbox) : BboxSlot(i - 1) = s]]
               ELSE <<>>
      cnt   == IF HasCount(p) THEN [s \in {"$count"} |-> p.count[1]] ELSE <<>>
  IN Spread(Spread(names, box), cnt)

\* The SQL text of a query, by its parts: the selected columns, the slots
\* of the IN list, whether the bbox predicate and the LIMIT clause are there.
FetchSql(p) ==
  [select |-> "*", alias |-> "", featureSets |-> FeatureSets(p.typeNames),
   bbox |-> HasBbox(p), limit |-> HasCount(p)]

CountAlias(v) == IF v = GetFeatureJs THEN "COUNT" ELSE "totalCount"

CountSql(v, p) ==
  [select |-> "COUNT(*)", alias |-> CountAlias(v),
   featureSets |-> FeatureSets(p.typeNames), bbox |-> HasBbox(p), limit |-> FALSE]

\* The parameters handed to the total-count query: getFeature.js spreads
\* all of queryParams, part_000 spreads them without $count.
CountQueryParams(v, qp) ==
  IF v = GetFeatureJs THEN qp
  ELSE [s \in DOMAIN qp \ {"$count"} |-> qp[s]]

\* Whether the handler runs the total-count query after the fetch query.
NeedsCountQuery(v, p) ==
  IF v = GetFeatureJs THEN HasCount(p) \/ HasBbox(p) ELSE HasCount(p)

\* ------------------------------------------------------- the data source
\* The parameter slots an SQL text names.
Referenced(sql) ==
  Range(sql.featureSets)
    \cup (IF sql.bbox THEN {BboxSlot(i) : i \in 0..3} ELSE {})
    \cup (IF sql.limit THEN {"$count"} ELSE {})

\* WHERE featureset IN (...) [AND x > $bbox0 AND y > $bbox1 AND x < $bbox2 AND y < $bbox3]
Where(sql, params, row) ==
  /\ row.featureset \in {params[s] : s \in Range(sql.featureSets)}
  /\ sql.bbox => /\ row.x > params["$bbox0"]
                 /\ row.y > params["$bbox1"]
                 /\ row.x < params["$bbox2"]
                 /\ row.y < params["$bbox3"]

\* LIMIT n
Limit(rows, n) == SubSeq(rows, 1, IF n < Len(rows) THEN n ELSE Len(rows))

\* The rows queryFeaturePackage answers with, against the table holding s.
QueryResult(sql, params, s) ==
  LET matching == SelectSeq(TableRows(s, 1), LAMBDA row : Where(sql, params, row))
  IN IF sql.select = "*"
     THEN (IF sql.limit THEN Limit(matching, params["$count"]) ELSE matching)
     ELSE <<[a \in {sql.alias} |-> Len(matching)]>>

\* A binding for a slot the SQL text does not name: sqlite can reject the
\* query for it.
HasUnusedParam(call) == DOMAIN call.params \ Referenced(call.sql) # {}

\* ------------------------------------------------------ feature decorator
ServerUrl == "http://gis.example"

mapFeature(serverUrl, feature) ==
  Spread([viewerUrl |-> serverUrl \o "/viewer#camera=" \o ToString(feature.latitude)
                          \o "," \o ToString(feature.longitude) \o ",18.00z"],
         feature)

Decorate(rows) == [i \in 1..Len(rows) |-> mapFeature(ServerUrl, rows[i])]

\* ---------------------------------------------------- serializer, GeoJSON
PointId(feature) == "Point." \o ToString(feature.id)

\* Whether the GeoJSON property loop skips the key.
GeoJsonSkipsKey(v, key) == v = Part000 /\ key = "geom"

RECURSIVE GeoJsonProperties(_, _, _, _)
\* The property loop over keys[i..]: properties[key] = `${feature[key]}`.
GeoJsonProperties(v, feature, properties, keys) ==
  IF keys = <<>> THEN properties
  ELSE LET key == Head(keys)
       IN GeoJsonProperties(v, feature,
            IF GeoJsonSkipsKey(v, key) THEN properties
            ELSE Put(properties, key, TemplateString(key, feature[key])),
            Tail(keys))

\* GeoJsonCoordinates with the EPSG:4326 pair in [latitude, longitude] order.
GeoJsonCoordinates_LatLon(v, srsName, feature) ==
  IF v = Part000 /\ srsName = "EPSG:4326"
  THEN <<feature.latitude, feature.longitude>>
  ELSE <<feature.x, feature.y>>

GeoJsonCoordinates(v, srsName, feature) ==
  IF v = Part000 /\ srsName = "EPSG:4326"
  THEN <<feature.longitude, feature.latitude>>
  ELSE <<feature.x, feature.y>>

GeoJsonFeature(v, srsName, feature) ==
  [type |-> "Feature",
   geometry |-> [type |-> "Point", coordinates |-> GeoJsonCoordinates(v, srsName, feature)],
   properties |-> GeoJsonProperties(v, feature, [GmlID |-> PointId(feature)], Keys(feature))]

GeoJsonDocument(v, srsName, feats) ==
  [type |-> "FeatureCollection",
   features |-> [i \in 1..Len(feats) |-> GeoJsonFeature(v, srsName, feats[i])]]

\* -------------------------------------------------------- serializer, GML
GmlPoint(urn, feature, a, b) ==
  [k \in {"gml:Point"} |->
     ("@srsName" :> urn) @@ ("@srsDimension" :> 2)
       @@ ("@gml:id" :> "GmlPoint." \o ToString(feature.id))
       @@ ("gml:pos" :> ToString(a) \o " " \o ToString(b))]

\* What the geom key of a feature becomes; <<>> when the handler throws
\* 'unsupported SRS' instead.
GmlGeom(v, srsName, feature) ==
  IF v = GetFeatureJs \/ srsName = "EPSG:3857"
  THEN <<GmlPoint("urn:ogc:def:crs:EPSG::3857", feature, feature.x, feature.y)>>
  ELSE IF srsName = "EPSG:4326"
  THEN <<GmlPoint("urn:ogc:def:crs:EPSG::4326", feature, feature.latitude, feature.longitude)>>
  ELSE <<>>

\* GmlSkipsKey with only the first excluded column (in key order) honoured.
GmlSkipsKey_FirstOnly(excl, key) ==
  /\ key \in excl
  /\ \A i, j \in DOMAIN ColumnOrder :
       (ColumnOrder[i] \in excl /\ ColumnOrder[j] = key) => j <= i

\* Whether the GML property loop skips the key.
GmlSkipsKey(excl, key) == key \in excl

RECURSIVE GmlElement(_, _, _, _, _, _)
\* The property loop over keys[i..] on the element named after the
\* featureset: [threw |-> the loop threw, el |-> the element so far].
GmlElement(v, srsName, excl, feature, el, keys) ==
  IF keys = <<>> THEN [threw |-> FALSE, el |-> el]
  ELSE LET key == Head(keys)
       IN IF GmlSkipsKey(excl, key)
          THEN GmlElement(v, srsName, excl, feature, el, Tail(keys))
          ELSE IF key = "geom"
          THEN (IF GmlGeom(v, srsName, feature) = <<>>
                THEN [threw |-> TRUE, el |-> el]
                ELSE GmlElement(v, srsName, excl, feature,
                       Put(el, key, GmlGeom(v, srsName, feature)[1]), Tail(keys)))
          ELSE GmlElement(v, srsName, excl, feature,
                 Put(el, key, TemplateString(key, feature[key])), Tail(keys))

\* featureXml of one feature: [threw, xml], xml the 'wfs:member' object.
GmlMember(v, srsName, excl, feature) ==
  LET r == GmlElement(v, srsName, excl, feature,
                      [k \in {"@gml:id"} |-> PointId(feature)], Keys(feature))
  IN [threw |-> r.threw,
      xml |-> [k \in {"wfs:member"} |->
                 Put([a \in {"@xmlns:wfs"} |-> "http://www.opengis.net/wfs/2.0"],
                     feature.featureset, r.el)]]

XsiNamespace(v) ==
  IF v = GetFeatureJs
  THEN "http://www.w3.org/2001/XMLSchema-instance " \o ServerUrl
         \o "/?SERVICE=WFS&VERSION=2.0.0&REQUEST=DescribeFeatureType&TYPENAME=plans"
  ELSE "http://www.w3.org/2001/XMLSchema-instance"

\* Whether building the GML document throws: some member's loop does.
GmlThrows(v, srsName, excl, feats) ==
  \E i \in 1..Len(feats) : GmlMember(v, srsName, excl, feats[i]).threw

GmlDocument(v, srsName, excl, feats, matched) ==
  [k \in {"wfs:FeatureCollection"} |->
     ("@xmlns:wfs" :> "http://www.opengis.net/wfs/2.0")
       @@ ("@xmlns:gml" :> "http://www.opengis.net/gml/3.2")
       @@ ("@xmlns:xsi" :> XsiNamespace(v))
       @@ ("@numberReturned" :> Len(feats))
       @@ ("@numberMatched" :> matched)
       @@ ("#" :> [i \in 1..Len(feats) |-> GmlMember(v, srsName, excl, feats[i]).xml])]

\* ------------------------------------------------------------ the handler
NoResponse == [contentType |-> "", status |-> <<>>, body |-> <<>>]

\* srsName of the destructured filter (getFeature.js destructures none).
SrsOf(p) == IF "srsName" \in DOMAIN p THEN p.srsName ELSE NoSrs

RefreshCall == [op |-> "refresh", forceFull |-> FALSE]
QueryCall(sql, params) == [op |-> "queryFeaturePackage", sql |-> sql, params |-> params]

Init ==
  /\ version \in Versions
  /\ pc = "idle"
  /\ store \in Stores
  /\ excluded \in ExcludedChoices
  /\ parsed = <<>>
  /\ queryParams = <<>>
  /\ calls = <<>>
  /\ awaited = <<>>
  /\ features = <<>>
  /\ numberMatched = <<>>
  /\ res = NoResponse
  /\ fetchStore = {}

\* wfsGetFeature is called: getCurrentDataSource(), dataSource.refresh(false).
Call ==
  /\ pc = "idle"
  /\ pc' = "refresh"
  /\ calls' = <<RefreshCall>>
  /\ UNCHANGED <<version, store, excluded, parsed, queryParams, awaited, features,
                 numberMatched, res, fetchStore>>

\* A refresh of the data source (this request's, or another request's)
\* replaces the rows of all_features while the handler is suspended.
Refresh ==
  /\ pc \in {"refresh", "fetch", "count"}
  /\ \E s \in Stores : s # store /\ store' = s
  /\ UNCHANGED <<version, pc, excluded, parsed, queryParams, calls, awaited, features,
                 numberMatched, res, fetchStore>>

\* ParsedNull with the null test placed after the fetch query is issued.
ParsedNull_QueriesAnyway ==
  /\ pc = "refresh"
  /\ awaited' = Append(awaited, "refresh")
  /\ \E p \in Filters(version) :
       calls' = Append(calls, QueryCall(FetchSql(p), BuildQueryParams(p)))
  /\ pc' = "aborted"
  /\ UNCHANGED <<version, store, excluded, parsed, queryParams, features,
                 numberMatched, res, fetchStore>>

\* refresh returned; parseWfsParams sent its own response and returned null.
ParsedNull ==
  /\ pc = "refresh"
  /\ awaited' = Append(awaited, "refresh")
  /\ pc' = "aborted"
  /\ UNCHANGED <<version, store, excluded, parsed, queryParams, calls, features,
                 numberMatched, res, fetchStore>>

\* refresh returned; parseWfsParams returned a filter: the handler builds
\* queryParams and issues the fetch query.
Parsed ==
  /\ pc = "refresh"
  /\ \E p \in Filters(version) :
       /\ parsed' = <<p>>
       /\ queryParams' = BuildQueryParams(p)
       /\ calls' = Append(calls, QueryCall(FetchSql(p), BuildQueryParams(p)))
  /\ awaited' = Append(awaited, "refresh")
  /\ pc' = "fetch"
  /\ UNCHANGED <<version, store, excluded, features, numberMatched, res, fetchStore>>

\* From `features = features.map(...)` to the end of the handler: the
\* document is built, then the response is written; a throw while building
\* leaves the response untouched.
Serialize(rows, matched) ==
  LET p     == parsed[1]
      feats == Decorate(rows)
  IN /\ features' = feats
     /\ IF p.outputFormat = "GEOJSON"
        THEN /\ res' = [contentType |-> "application/json", status |-> <<200>>,
                        body |-> <<GeoJsonDocument(version, SrsOf(p), feats)>>]
             /\ pc' = "done"
        ELSE IF GmlThrows(version, SrsOf(p), excluded, feats)
        THEN /\ res' = res
             /\ pc' = "failed"
        ELSE /\ res' = [contentType |-> "text/xml", status |-> <<200>>,
                        body |-> <<GmlDocument(version, SrsOf(p), excluded, feats, matched)>>]
             /\ pc' = "done"

\* numberMatched right after the fetch query: null in getFeature.js (set
\* later, in either branch of `count || bbox`), features.length in part_000.
MatchedAfterFetch(v, rows) == IF v = GetFeatureJs THEN <<>> ELSE <<Len(rows)>>

\* The fetch query returns.
FetchReturn ==
  /\ pc = "fetch"
  /\ LET call == calls[Len(calls)]
         rows == QueryResult(call.sql, call.params, store)
     IN /\ fetchStore' = store
        /\ awaited' = Append(awaited, "fetch")
        /\ IF NeedsCountQuery(version, parsed[1])
           THEN /\ calls' = Append(calls, QueryCall(CountSql(version, parsed[1]),
                                                    CountQueryParams(version, queryParams)))
                /\ features' = rows
                /\ numberMatched' = MatchedAfterFetch(version, rows)
                /\ pc' = "count"
                /\ res' = res
           ELSE /\ calls' = calls
                /\ numberMatched' = <<Len(rows)>>
                /\ Serialize(rows, Len(rows))
  /\ UNCHANGED <<version, store, excluded, parsed, queryParams>>

\* The total-count query returns its one row.
CountReturn ==
  /\ pc = "count"
  /\ LET call  == calls[Len(calls)]
         total == QueryResult(call.sql, call.params, store)[1][call.sql.alias]
     IN /\ numberMatched' = <<total>>
        /\ Serialize(features, total)
  /\ awaited' = Append(awaited, "count")
  /\ UNCHANGED <<version, store, excluded, parsed, queryParams, calls, fetchStore>>

\* The data source rejects the total-count query for a parameter its SQL
\* does not name; the rejection propagates out of the handler.
CountRejected ==
  /\ pc = "count"
  /\ HasUnusedParam(calls[Len(calls)])
  /\ pc' = "failed"
  /\ UNCHANGED <<version, store, excluded, parsed, queryParams, calls, awaited, features,
                 numberMatched, res, fetchStore>>

Next ==
  \/ Call
  \/ Refresh
  \/ ParsedNull
  \/ Parsed
  \/ FetchReturn
  \/ CountReturn
  \/ CountRejected

Spec == Init /\ [][Next]_vars

\* The handler of part_000 alone: its total-count query binds no parameter
\* its SQL does not name, so the data source never rejects it for one.
InitPart000 == Init /\ version = Part000

NextPart000 ==
  \/ Call
  \/ Refresh
  \/ ParsedNull
  \/ Parsed
  \/ FetchReturn
  \/ CountReturn

SpecPart000 == InitPart000 /\ [][NextPart000]_vars

\* ================================================================ claims
\* The filter of the request in progress.
TheFilter == parsed[1]

IsQuery(call) == call.op = "queryFeaturePackage"
Queries == SelectSeq(calls, IsQuery)
IsCountQuery(call) == IsQuery(call) /\ call.sql.select = "COUNT(*)"

\* The handler has run to its end: it wrote its response, or threw.
Responded == pc = "done"
\* The handler got past its last query and ran the serializer.
Serialized == pc \in {"done", "failed"} /\ Len(awaited) = Len(calls)

\* The true number of rows of table s the filter's type names and bounding
\* box match.
TrueMatchCount(p, s) ==
  Cardinality({i \in s :
    /\ Row(i).featureset \in Range(p.typeNames)
    /\ HasBbox(p) => /\ Row(i).x > p.bbox[1] /\ Row(i).y > p.bbox[2]
                     /\ Row(i).x < p.bbox[3] /\ Row(i).y < p.bbox[4]})

\* C1 (as claimed): in every response, a filter without count gives
\* numberMatched = features.length; a filter with count = k, against a
\* table whose true match count is M > k, gives numberMatched = M and
\* features.length = k.
C1_CountConsistency ==
  Responded =>
    /\ ~HasCount(TheFilter) => numberMatched = <<Len(features)>>
    /\ (/\ HasCount(TheFilter)
        /\ fetchStore = store
        /\ TrueMatchCount(TheFilter, store) > TheFilter.count[1])
       => /\ numberMatched = <<TrueMatchCount(TheFilter, store)>>
          /\ Len(features) = TheFilter.count[1]

\* C2 (as claimed): the parameters of every total-count query bind exactly
\* the type-name slots and, with a bbox, the four bbox slots; never $count.
C2_ParameterIsolation ==
  \A i \in DOMAIN calls :
    IsCountQuery(calls[i]) =>
      /\ "$count" \notin DOMAIN calls[i].params
      /\ DOMAIN calls[i].params =
           {ParamSlot(j - 1) : j \in 1..Len(TheFilter.typeNames)}
             \cup (IF HasBbox(TheFilter) THEN {BboxSlot(j) : j \in 0..3} ELSE {})

\* C3 (as claimed): a request without count is answered from exactly one
\* query, the fetch query, numberMatched being the fetched row count; a
\* request with count from the fetch query followed by the total-count query.
C3_CountQueryOnlyWithCount ==
  Responded =>
    IF HasCount(TheFilter)
    THEN /\ Len(Queries) = 2
         /\ Queries[1].sql.select = "*"
         /\ IsCountQuery(Queries[2])
    ELSE /\ Len(Queries) = 1
         /\ Queries[1].sql.select = "*"
         /\ numberMatched = <<Len(features)>>

\* The document the handler sent.
Body == res.body[1]
IsGml == Responded /\ TheFilter.outputFormat # "GEOJSON"
IsGeoJson == Responded /\ TheFilter.outputFormat = "GEOJSON"
\* The i-th wfs:member of the GML document, and its child element, the one
\* named after the i-th feature's featureset.
Member(i) == Body["wfs:FeatureCollection"]["#"][i]["wfs:member"]
Element(i) == Member(i)[features[i].featureset]
\* The data source's row behind the i-th returned feature.
RowOf(i) == Row(features[i].id)
\* The geom column of the i-th feature is echoed in GML.
EmitsGeom(i) == "geom" \in DOMAIN RowOf(i) /\ "geom" \notin excluded

\* C4 (as claimed): a GML request whose srsName is EPSG:3857 or unspecified
\* is answered, every emitted geom being a gml:Point in EPSG::3857 at
\* "<x> <y>"; one whose srsName is EPSG:4326 is answered, every emitted geom
\* being a gml:Point in EPSG::4326 at "<latitude> <longitude>".
C4_GmlCrsBranching ==
  (/\ Serialized
   /\ TheFilter.outputFormat # "GEOJSON"
   /\ SrsOf(TheFilter) \in {"EPSG:3857", NoSrs, "EPSG:4326"})
  => /\ Responded
     /\ \A i \in DOMAIN features :
          EmitsGeom(i) =>
            LET point == Element(i)["geom"]["gml:Point"]
                row   == RowOf(i)
            IN IF SrsOf(TheFilter) = "EPSG:4326"
               THEN /\ point["@srsName"] = "urn:ogc:def:crs:EPSG::4326"
                    /\ point["gml:pos"] =
                         ToString(row.latitude) \o " " \o ToString(row.longitude)
               ELSE /\ point["@srsName"] = "urn:ogc:def:crs:EPSG::3857"
                    /\ point["gml:pos"] = ToString(row.x) \o " " \o ToString(row.y)

\* C5 (as claimed): a GML request whose srsName names a CRS other than
\* EPSG:3857 and EPSG:4326 ends in the unsupported-SRS error whatever rows
\* were fetched, with no status, content type or body set on the response.
C5_UnsupportedCrsHardFails ==
  (/\ Serialized
   /\ TheFilter.outputFormat # "GEOJSON"
   /\ SrsOf(TheFilter) \notin {"EPSG:3857", "EPSG:4326", NoSrs})
  => /\ pc = "failed"
     /\ res = NoResponse

C7_ExclusionFidelity ==
  IsGml =>
    \A i \in DOMAIN features :
      /\ (DOMAIN Element(i) \ {"@gml:id"}) \cap excluded = {}
      /\ \A key \in DOMAIN features[i] \ (excluded \cup {"geom"}) :
           /\ key \in DOMAIN Element(i)
           /\ Element(i)[key] = (IF key \in {"id", "x", "y", "latitude", "longitude"}
                                 THEN ToString(features[i][key])
                                 ELSE features[i][key])

\* C7's case: a GML response with features, under a configuration that
\* excludes some of their columns.
C7_Witness ==
  /\ IsGml
  /\ Len(features) >= 2
  /\ excluded \cap DOMAIN features[1] # {}
  /\ DOMAIN features[1] \ excluded # {}

\* C8 (as claimed): every emitted feature's identity reads "Point.<id>" of
\* its row: properties.GmlID in GeoJSON, the gml:id attribute of the
\* member's child element in GML, whose tag is the row's featureset.
C8_IdentityPropagation ==
  /\ IsGeoJson =>
       \A i \in DOMAIN features :
         Body.features[i].properties["GmlID"] = "Point." \o ToString(RowOf(i).id)
  /\ IsGml =>
       \A i \in DOMAIN features :
         /\ RowOf(i).featureset \in DOMAIN Member(i)
         /\ Member(i)[RowOf(i).featureset]["@gml:id"] = "Point." \o ToString(RowOf(i).id)

\* C9 (as claimed): in every response numberMatched >= features.length,
\* with equality when no count limit was applied.
C9_MatchedAtLeastReturned ==
  Responded =>
    /\ numberMatched[1] >= Len(features)
    /\ ~HasCount(TheFilter) => numberMatched[1] = Len(features)

\* C10: after parseWfsParams returned null the handler has issued no query
\* and written nothing to the response; a query is issued only after the
\* refresh returned, and the response written only after every call
\* returned.
C10_AbortOnNull ==
  /\ parsed = <<>> =>
       /\ \A i \in DOMAIN calls : ~IsQuery(calls[i])
       /\ res = NoResponse
       /\ pc \in {"idle", "refresh", "aborted"}
  /\ Queries # <<>> => (awaited # <<>> /\ awaited[1] = "refresh")
  /\ res # NoResponse =>
       /\ Len(awaited) = Len(calls)
       /\ pc = "done"

\* C10's case: the resolver returned null after the refresh and the handler
\* stopped.
C10_Witness ==
  /\ pc = "aborted"
  /\ parsed = <<>>
  /\ awaited = <<"refresh">>

====
